---- MODULE Spec2Model ----
(***************************************************************************)
(* Model of src/utils.py of Chess-Statistics-Toolkit:                      *)
(*   _chunks                (the Chunker),                                 *)
(*   _concurrent_function   (the Batch Fetch Engine, "fetchAll"),          *)
(*   get_game_data_lichess  (the Record Stream Parser).                    *)
(* Three specifications share the module: Spec (the fetch engine),         *)
(* ChunkSpec (the chunk generator alone) and ParseSpec (the parser).       *)
(***************************************************************************)
EXTENDS Integers, Sequences, FiniteSets, TLC

(* ------------------------------ bounds --------------------------------- *)
\* longest item list handed to the engine / the chunk generator
MaxItems == 4
\* largest worker-pool size (max_workers) tried
MaxWorkers == 2
\* how many invocations, over one run, the remote service may answer 429
MaxRateLimited == 2

\* the work items (usernames)
Items == {"a", "b"}

\* outcomes of one invocation of func: a value, HTTPError 404, HTTPError 429,
\* another HTTPError, or an exception that is not an HTTPError
Outcomes == {"ok", "404", "429", "500", "URLError"}

Min(a, b) == IF a < b THEN a ELSE b

SeqsUpTo(S, n) == UNION {[1..k -> S] : k \in 0..n}

(* --------------------------- pure helpers ------------------------------ *)
\* Python's s[a:b] for 0 <= a, 0 <= b (0-based, clipped at the end of s)
Slice(s, a, b) == IF a >= Min(b, Len(s)) THEN <<>> ELSE SubSeq(s, a + 1, Min(b, Len(s)))

\* range(0, len(input_list), chunk_size): is value i produced
RangeHas(i, len) == i < len

\* range(...): the value after i
RangeStep(i, chunk_size) == i + chunk_size

\* variant of ChunkAt: the slice ends one item early
ChunkAtShort(input_list, i, chunk_size) == Slice(input_list, i, i + chunk_size - 1)

\* input_list[i:i + chunk_size]
ChunkAt(input_list, i, chunk_size) == Slice(input_list, i, i + chunk_size)

\* the value func returns for an item when it succeeds
Func(item) == <<"data", item>>

(* ------------------------------ state ---------------------------------- *)
VARIABLES
  \* ---- fetch engine: _concurrent_function.thread
  usernames,            \* the list `thread` was called with
  max_workers,          \* pool size and chunk size
  pc,                   \* position of the driving call
  data,                 \* argument of the running thread_attempt_get
  i,                    \* next value of range() inside _chunks(data, max_workers)
  chunk,                \* chunk being processed
  exc,                  \* local name `exc`: "executor", or "unbound" once an except clause deleted it
  futures,              \* futures of this pass's executor, in submit order: "running" or an outcome
  future_to_username,   \* dict of the current chunk: future -> item
  completed_futures,    \* futures of cf.wait's done set not yet visited by the for loop
  att_results,          \* thread_attempt_get's local `results`
  att_failed,           \* thread_attempt_get's local `failed_requests`
  results,              \* thread's `results`
  failed_requests,      \* thread's `failed_requests`
  err,                  \* exception travelling to / received by the caller, <<>> if none
  hist,                 \* per item, the outcomes of its invocations so far (observer)
  passes,               \* number of calls of thread_attempt_get so far (observer)
  \* ---- chunk generator: _chunks
  input_list,           \* the list being chunked
  chunk_size,           \* the chunk size
  gen_i,                \* next value of range(0, len(input_list), chunk_size)
  gen_pc,               \* "run" while the generator can be resumed, "done" once exhausted
  yielded,              \* the chunks yielded so far, in order
  \* ---- parser: get_game_data_lichess
  archive,              \* the lines of the decompressed file
  tags,                 \* the tag filter
  max_games,            \* the count limit, Infinity for math.inf
  l,                    \* line counter: the lines read so far
  games_analyzed,       \* boundary lines counted
  current_game,         \* the open record (a dict), meaningful when current_game_bound
  current_game_bound,   \* whether the local name current_game is bound
  current_game_id,      \* identity of the dict object current_game refers to
  ppc,                  \* "scan", "yield" (suspended at the yield), "closed", "error"
  loop_exit,            \* how the for loop ended: "none", "break", "exhausted" (observer)
  perr,                 \* exception raised by the generator, <<>> if none
  games,                \* the records yielded so far, in order
  yield_at,             \* the value of l at each yield (observer)
  yielded_ids           \* identity of the dict object behind each yielded record

fetchVars == <<usernames, max_workers, pc, data, i, chunk, exc, futures,
               future_to_username, completed_futures, att_results, att_failed,
               results, failed_requests, err, hist, passes>>

chunkVars == <<input_list, chunk_size, gen_i, gen_pc, yielded>>

parseVars == <<archive, tags, max_games, l, games_analyzed, current_game, current_game_bound,
               current_game_id, ppc, loop_exit, perr, games, yield_at, yielded_ids>>

vars == <<fetchVars, chunkVars, parseVars>>

(* --------------------------- fetch engine ------------------------------ *)
NoFutures == [f \in {} |-> "a"]

Running == {f \in DOMAIN futures : futures[f] = "running"}

RateLimitedSoFar ==
  Cardinality({p \in UNION {{<<it, k>> : k \in DOMAIN hist[it]} : it \in Items} :
                 hist[p[1]][p[2]] = "429"})

\* variant of WaitReturns: return_when=FIRST_COMPLETED
WaitReturnsFirst(fs) == \E f \in fs : futures[f] # "running"

\* cf.wait(fs) with return_when=ALL_COMPLETED: may return once every future is done
WaitReturns(fs) == \A f \in fs : futures[f] # "running"

\* the done set cf.wait returns
DoneSet(fs) == {f \in fs : futures[f] # "running"}

FetchStart ==
  /\ usernames \in SeqsUpTo(Items, MaxItems)
  /\ max_workers \in 1..MaxWorkers
  /\ pc = "call"
  /\ data = usernames
  /\ i = 0
  /\ chunk = <<>>
  /\ exc = "unbound"
  /\ futures = <<>>
  /\ future_to_username = NoFutures
  /\ completed_futures = {}
  /\ att_results = <<>>
  /\ att_failed = <<>>
  /\ results = <<>>
  /\ failed_requests = <<>>
  /\ err = <<>>
  /\ hist = [it \in Items |-> <<>>]
  /\ passes = 0

\* thread_attempt_get(data) is entered: locals, the executor, the chunk generator
EnterAttempt ==
  /\ pc = "call"
  /\ att_results' = <<>>
  /\ att_failed' = <<>>
  /\ exc' = "executor"
  /\ futures' = <<>>
  /\ i' = 0
  /\ chunk' = <<>>
  /\ future_to_username' = NoFutures
  /\ completed_futures' = {}
  /\ passes' = passes + 1
  /\ pc' = "for_chunk"
  /\ UNCHANGED <<usernames, max_workers, data, results, failed_requests, err, hist>>
  /\ UNCHANGED <<chunkVars, parseVars>>

\* for chunk in _chunks(data, max_workers): the generator yields the next chunk or ends
NextChunk ==
  /\ pc = "for_chunk"
  /\ IF RangeHas(i, Len(data))
       THEN /\ chunk' = ChunkAt(data, i, max_workers)
            /\ i' = RangeStep(i, max_workers)
            /\ future_to_username' = NoFutures
            /\ pc' = "submit"
       ELSE /\ pc' = "shutdown"
            /\ UNCHANGED <<chunk, i, future_to_username>>
  /\ UNCHANGED <<usernames, max_workers, data, exc, futures, completed_futures,
                 att_results, att_failed, results, failed_requests, err, hist, passes>>
  /\ UNCHANGED <<chunkVars, parseVars>>

\* one exc.submit(func, i) of the dict comprehension
Submit ==
  /\ pc = "submit"
  /\ IF exc = "unbound"
       THEN /\ err' = <<"NameError", "exc">>
            /\ pc' = "shutdown"
            /\ UNCHANGED <<futures, future_to_username>>
       ELSE LET n == Cardinality(DOMAIN future_to_username)
                f == Len(futures) + 1
            IN /\ futures' = Append(futures, "running")
               /\ future_to_username' = future_to_username @@ (f :> chunk[n + 1])
               /\ pc' = IF n + 1 = Len(chunk) THEN "wait" ELSE "submit"
               /\ err' = err
  /\ UNCHANGED <<usernames, max_workers, data, i, chunk, exc, completed_futures,
                 att_results, att_failed, results, failed_requests, hist, passes>>
  /\ UNCHANGED <<chunkVars, parseVars>>

\* a worker finishes func(item) for future f with some outcome
Complete(f) ==
  /\ f \in Running
  /\ \E o \in Outcomes :
       /\ o = "429" => RateLimitedSoFar < MaxRateLimited
       /\ futures' = [futures EXCEPT ![f] = o]
       /\ hist' = [hist EXCEPT ![data[f]] = Append(@, o)]
  /\ UNCHANGED <<usernames, max_workers, pc, data, i, chunk, exc, future_to_username,
                 completed_futures, att_results, att_failed, results, failed_requests,
                 err, passes>>
  /\ UNCHANGED <<chunkVars, parseVars>>

\* completed_futures = cf.wait(future_to_username)[0]
Wait ==
  /\ pc = "wait"
  /\ WaitReturns(DOMAIN future_to_username)
  /\ completed_futures' = DoneSet(DOMAIN future_to_username)
  /\ pc' = "collect"
  /\ UNCHANGED <<usernames, max_workers, data, i, chunk, exc, futures, future_to_username,
                 att_results, att_failed, results, failed_requests, err, hist, passes>>
  /\ UNCHANGED <<chunkVars, parseVars>>

\* variant of CollectResults: the value replaces the list instead of being appended
CollectResultsAssign(o, f) == IF o = "ok" THEN <<Func(future_to_username[f])>> ELSE att_results

\* what the body of the for loop does with a future whose outcome is o
CollectResults(o, f) == IF o = "ok" THEN Append(att_results, Func(future_to_username[f])) ELSE att_results

CollectFailed(o, f) == IF o = "429" THEN Append(att_failed, future_to_username[f]) ELSE att_failed

\* the name exc after the loop body: `except ... as exc` unbinds it when the clause ends
CollectExc(o) == IF o \in {"404", "429", "500"} THEN "unbound" ELSE exc

\* variant of CollectRaise: an HTTPError with another code is ignored like a 404
CollectRaiseNoHTTP(o, f) ==
  IF o = "URLError" THEN <<"URLError", future_to_username[f]>> ELSE <<>>

\* variant of CollectRaise: an exception that is not an HTTPError is swallowed
CollectRaiseOnlyHTTP(o, f) ==
  IF o = "500" THEN <<"HTTPError500", future_to_username[f]>> ELSE <<>>

\* the exception leaving the loop body, <<>> if none
CollectRaise(o, f) ==
  IF o = "500" THEN <<"HTTPError500", future_to_username[f]>>
  ELSE IF o = "URLError" THEN <<"URLError", future_to_username[f]>>
  ELSE <<>>

\* one iteration of `for completed_future in completed_futures` (a set: any order)
Collect(f) ==
  /\ pc = "collect"
  /\ f \in completed_futures
  /\ LET o == futures[f] IN
       /\ att_results' = CollectResults(o, f)
       /\ att_failed' = CollectFailed(o, f)
       /\ exc' = CollectExc(o)
       /\ err' = CollectRaise(o, f)
       /\ completed_futures' = completed_futures \ {f}
       /\ pc' = IF CollectRaise(o, f) # <<>> THEN "shutdown"
                ELSE IF completed_futures \ {f} = {} THEN "for_chunk" ELSE "collect"
  /\ UNCHANGED <<usernames, max_workers, data, i, chunk, futures, future_to_username,
                 results, failed_requests, hist, passes>>
  /\ UNCHANGED <<chunkVars, parseVars>>

\* variant of Shutdown: thread assigns the new results instead of adding them
ShutdownAssign ==
  /\ pc = "shutdown"
  /\ Running = {}
  /\ IF err # <<>>
       THEN /\ pc' = "raised"
            /\ UNCHANGED <<results, failed_requests>>
       ELSE /\ results' = att_results
            /\ failed_requests' = att_failed
            /\ pc' = "while"
  /\ UNCHANGED <<usernames, max_workers, data, i, chunk, exc, futures, future_to_username,
                 completed_futures, att_results, att_failed, err, hist, passes>>
  /\ UNCHANGED <<chunkVars, parseVars>>

\* the with block is left: ThreadPoolExecutor.__exit__ waits for the submitted work, then
\* either the exception goes on to the caller of thread, or thread_attempt_get returns
\* and thread takes its pair (results += new_results, failed_requests = ...)
Shutdown ==
  /\ pc = "shutdown"
  /\ Running = {}
  /\ IF err # <<>>
       THEN /\ pc' = "raised"
            /\ UNCHANGED <<results, failed_requests>>
       ELSE /\ results' = results \o att_results
            /\ failed_requests' = att_failed
            /\ pc' = "while"
  /\ UNCHANGED <<usernames, max_workers, data, i, chunk, exc, futures, future_to_username,
                 completed_futures, att_results, att_failed, err, hist, passes>>
  /\ UNCHANGED <<chunkVars, parseVars>>

\* while failed_requests: ... / return results
WhileTest ==
  /\ pc = "while"
  /\ IF failed_requests # <<>>
       THEN /\ data' = failed_requests
            /\ pc' = "call"
       ELSE /\ pc' = "returned"
            /\ data' = data
  /\ UNCHANGED <<usernames, max_workers, i, chunk, exc, futures, future_to_username,
                 completed_futures, att_results, att_failed, results, failed_requests,
                 err, hist, passes>>
  /\ UNCHANGED <<chunkVars, parseVars>>

FetchNext ==
  \/ EnterAttempt
  \/ NextChunk
  \/ Submit
  \/ \E f \in DOMAIN futures : Complete(f)
  \/ Wait
  \/ \E f \in completed_futures : Collect(f)
  \/ Shutdown
  \/ WhileTest

(* -------------------------- chunk generator ---------------------------- *)
\* largest chunk size tried when the generator runs alone
MaxChunkSize == 3

ChunkStart ==
  /\ input_list \in SeqsUpTo(Items, MaxItems)
  /\ chunk_size \in 1..MaxChunkSize
  /\ gen_i = 0
  /\ gen_pc = "run"
  /\ yielded = <<>>

\* the generator is not in use
ChunkIdle ==
  /\ input_list = <<>>
  /\ chunk_size = 1
  /\ gen_i = 0
  /\ gen_pc = "done"
  /\ yielded = <<>>

\* next() on the generator: yield input_list[i:i + chunk_size]
ChunksYield ==
  /\ gen_pc = "run"
  /\ RangeHas(gen_i, Len(input_list))
  /\ yielded' = Append(yielded, ChunkAt(input_list, gen_i, chunk_size))
  /\ gen_i' = RangeStep(gen_i, chunk_size)
  /\ UNCHANGED <<input_list, chunk_size, gen_pc>>
  /\ UNCHANGED <<fetchVars, parseVars>>

\* next() on the generator: the range is exhausted
ChunksStop ==
  /\ gen_pc = "run"
  /\ ~RangeHas(gen_i, Len(input_list))
  /\ gen_pc' = "done"
  /\ UNCHANGED <<input_list, chunk_size, gen_i, yielded>>
  /\ UNCHANGED <<fetchVars, parseVars>>

ChunkNext == ChunksYield \/ ChunksStop

(* ------------------------------ parser --------------------------------- *)
\* longest archive, in lines
MaxLines == 4
\* largest finite count limit tried
MaxGames == 2

\* math.inf as max_games
Infinity == -1

Q == "\""

Event == <<"E", "v", "e", "n", "t">>

Result == <<"R", "e", "s", "u", "l", "t">>

Site == <<"S", "i", "t", "e">>

Movetext == <<"M", "o", "v", "e", "t", "e", "x", "t">>

\* a line `[name "value"]` of the archive
TagLine(name, value) == <<"[">> \o name \o <<" ", Q>> \o value \o <<Q, "]", "\n">>

\* the lines an archive is made of: tag lines, a blank line, a movetext line,
\* and tag lines with one quote and with no quote
Lines ==
  { TagLine(Event, <<"a">>),
    TagLine(Result, <<"1">>), TagLine(Result, <<"0">>),
    TagLine(Site, <<"x">>),
    <<"\n">>,
    <<"e", "4", " ", "\n">>,
    <<"[">> \o Result \o <<" ", Q, "1", "\n">>,
    <<"[">> \o Result \o <<"]", "\n">> }

\* the tag filters tried
TagSets == { {Event, Result}, {Result, Movetext} }

EmptyDict == [k \in {} |-> <<>>]

\* d[k] = v on a dict
Put(d, k, v) == [x \in (DOMAIN d) \cup {k} |-> IF x = k THEN v ELSE d[x]]

Whitespace == {" ", "\n", "\t", "\r"}

RECURSIVE RStrip(_)
\* bytes.rstrip() / str.rstrip()
RStrip(s) == IF s # <<>> /\ s[Len(s)] \in Whitespace THEN RStrip(SubSeq(s, 1, Len(s) - 1)) ELSE s

\* line == b"\n"
IsBlank(line) == line = <<"\n">>

\* line.startswith(b"[")
StartsWithBracket(line) == Len(line) >= 1 /\ line[1] = "["

RECURSIVE IndicesFrom(_, _)
IndicesFrom(s, k) ==
  IF k >= Len(s) THEN <<>>
  ELSE (IF s[k + 1] = Q THEN <<k>> ELSE <<>>) \o IndicesFrom(s, k + 1)

\* [i for i, x in enumerate(line) if x == "\""]: 0-based positions, ascending
QuoteIndices(s) == IndicesFrom(s, 0)

\* line[:quote_indices[0]].rstrip()
TagName(s) == RStrip(Slice(s, 0, QuoteIndices(s)[1]))

\* line[quote_indices[0] + 1: quote_indices[1]]
TagValue(s) == Slice(s, QuoteIndices(s)[1] + 1, QuoteIndices(s)[2])

\* variant of Exceeds: the limit test reads >= instead of >
ExceedsOrEqual(n, m) == m # Infinity /\ n >= m

\* games_analyzed > max_games
Exceeds(n, m) == m # Infinity /\ n > m

\* the part of the generator's state a loop iteration can change
Same == [cg |-> current_game, bound |-> current_game_bound, id |-> current_game_id,
         ga |-> games_analyzed, ppc |-> ppc, exit |-> loop_exit, perr |-> perr]

\* an exception leaves the generator
Raise(e) == [Same EXCEPT !.ppc = "error", !.perr = e]

\* current_game[k] = v
Store(k, v) ==
  IF current_game_bound THEN [Same EXCEPT !.cg = Put(current_game, k, v)]
  ELSE Raise(<<"UnboundLocalError", "current_game">>)

\* variant of NewGame: current_game is not replaced by a fresh dict
NewGameKeep(name, value) ==
  LET n == games_analyzed + 1 IN
    IF Exceeds(n, max_games)
      THEN [Same EXCEPT !.bound = TRUE, !.ga = n, !.ppc = "closed", !.exit = "break"]
      ELSE [Same EXCEPT !.cg = IF name \in tags THEN Put(current_game, name, value) ELSE current_game,
                        !.bound = TRUE, !.ga = n, !.ppc = "scan"]

\* variant of NewGame: the dict is emptied in place (current_game.clear()), not replaced
NewGameClear(name, value) ==
  LET n == games_analyzed + 1 IN
    IF Exceeds(n, max_games)
      THEN [Same EXCEPT !.cg = EmptyDict, !.bound = TRUE, !.ga = n,
                        !.ppc = "closed", !.exit = "break"]
      ELSE [Same EXCEPT !.cg = IF name \in tags THEN Put(EmptyDict, name, value) ELSE EmptyDict,
                        !.bound = TRUE, !.ga = n, !.ppc = "scan"]

\* after the boundary test: current_game = {} (a new dict object), the counter, the limit,
\* the tag itself
NewGame(name, value) ==
  LET n == games_analyzed + 1 IN
    IF Exceeds(n, max_games)
      THEN [Same EXCEPT !.cg = EmptyDict, !.id = current_game_id + 1, !.bound = TRUE, !.ga = n,
                        !.ppc = "closed", !.exit = "break"]
      ELSE [Same EXCEPT !.cg = IF name \in tags THEN Put(EmptyDict, name, value) ELSE EmptyDict,
                        !.id = current_game_id + 1, !.bound = TRUE, !.ga = n, !.ppc = "scan"]

\* variant of Yields: the boundary test is made only for names in the filter
YieldsIfKept(line) ==
  /\ ~IsBlank(line)
  /\ StartsWithBracket(line)
  /\ Len(QuoteIndices(Slice(line, 1, Len(line)))) >= 2
  /\ TagName(Slice(line, 1, Len(line))) = Event
  /\ TagName(Slice(line, 1, Len(line))) \in tags
  /\ games_analyzed > 0

\* does this line make the generator yield current_game
Yields(line) ==
  /\ ~IsBlank(line)
  /\ StartsWithBracket(line)
  /\ Len(QuoteIndices(Slice(line, 1, Len(line)))) >= 2
  /\ TagName(Slice(line, 1, Len(line))) = Event
  /\ games_analyzed > 0

\* variant of LineStep: the tests against the filter are dropped, every field is stored
LineStepNoFilter(line) ==
  IF IsBlank(line) THEN Same
  ELSE IF ~StartsWithBracket(line) THEN Store(Movetext, RStrip(line))
  ELSE LET s == Slice(line, 1, Len(line)) IN
    IF Len(QuoteIndices(s)) < 2 THEN Raise(<<"IndexError">>)
    ELSE IF TagName(s) = Event THEN NewGame(TagName(s), TagValue(s))
    ELSE Store(TagName(s), TagValue(s))

\* one iteration of the for loop on a line that does not yield
LineStep(line) ==
  IF IsBlank(line) THEN Same
  ELSE IF ~StartsWithBracket(line)
    THEN IF Movetext \in tags THEN Store(Movetext, RStrip(line)) ELSE Same
  ELSE LET s == Slice(line, 1, Len(line)) IN
    IF Len(QuoteIndices(s)) < 2 THEN Raise(<<"IndexError">>)
    ELSE IF TagName(s) = Event THEN NewGame(TagName(s), TagValue(s))
    ELSE IF TagName(s) \in tags THEN Store(TagName(s), TagValue(s))
    ELSE Same

Apply(r) ==
  /\ current_game' = r.cg
  /\ current_game_bound' = r.bound
  /\ current_game_id' = r.id
  /\ games_analyzed' = r.ga
  /\ ppc' = r.ppc
  /\ loop_exit' = r.exit
  /\ perr' = r.perr

\* the consumer holds references: a yielded record shows what its dict object holds now
Held(r) == [k \in DOMAIN games |-> IF yielded_ids[k] = r.id THEN r.cg ELSE games[k]]

ParseStart ==
  /\ archive \in SeqsUpTo(Lines, MaxLines)
  /\ tags \in TagSets
  /\ max_games \in (0..MaxGames) \cup {Infinity}
  /\ l = 0
  /\ games_analyzed = 0
  /\ current_game = EmptyDict
  /\ current_game_bound = FALSE
  /\ current_game_id = 0
  /\ ppc = "scan"
  /\ loop_exit = "none"
  /\ perr = <<>>
  /\ games = <<>>
  /\ yield_at = <<>>
  /\ yielded_ids = <<>>

\* the for loop takes the next line of the file and runs its body, up to a yield
ReadLine ==
  /\ ppc = "scan"
  /\ l < Len(archive)
  /\ LET line == archive[l + 1] IN
       /\ l' = l + 1
       /\ IF Yields(line)
            THEN /\ games' = Append(games, current_game)
                 /\ yield_at' = Append(yield_at, l + 1)
                 /\ yielded_ids' = Append(yielded_ids, current_game_id)
                 /\ Apply([Same EXCEPT !.ppc = "yield"])
            ELSE /\ Apply(LineStep(line))
                 /\ games' = Held(LineStep(line))
                 /\ UNCHANGED <<yield_at, yielded_ids>>
  /\ UNCHANGED <<archive, tags, max_games>>
  /\ UNCHANGED <<fetchVars, chunkVars>>

\* the consumer asks for the next record: the body goes on after the yield
Resume ==
  /\ ppc = "yield"
  /\ LET s == Slice(archive[l], 1, Len(archive[l])) IN
       /\ Apply(NewGame(TagName(s), TagValue(s)))
       /\ games' = Held(NewGame(TagName(s), TagValue(s)))
  /\ UNCHANGED <<archive, l, yield_at, yielded_ids, tags, max_games>>
  /\ UNCHANGED <<fetchVars, chunkVars>>

\* the file has no further line: the loop ends, print(l), lichess_file.close()
EndOfStream ==
  /\ ppc = "scan"
  /\ l = Len(archive)
  /\ Apply([Same EXCEPT !.ppc = "closed", !.exit = "exhausted"])
  /\ UNCHANGED <<archive, l, games, yield_at, yielded_ids, tags, max_games>>
  /\ UNCHANGED <<fetchVars, chunkVars>>

ParseNext == ReadLine \/ Resume \/ EndOfStream

\* the parser is not in use
ParseIdle ==
  /\ archive = <<>>
  /\ tags = {}
  /\ max_games = 0
  /\ l = 0
  /\ games_analyzed = 0
  /\ current_game = <<>>
  /\ current_game_bound = FALSE
  /\ current_game_id = 0
  /\ ppc = "closed"
  /\ loop_exit = "none"
  /\ perr = <<>>
  /\ games = <<>>
  /\ yield_at = <<>>
  /\ yielded_ids = <<>>

\* the engine is not in use
FetchIdle ==
  /\ usernames = <<>>
  /\ max_workers = 1
  /\ pc = "returned"
  /\ data = <<>>
  /\ i = 0
  /\ chunk = <<>>
  /\ exc = "unbound"
  /\ futures = <<>>
  /\ future_to_username = NoFutures
  /\ completed_futures = {}
  /\ att_results = <<>>
  /\ att_failed = <<>>
  /\ results = <<>>
  /\ failed_requests = <<>>
  /\ err = <<>>
  /\ hist = [it \in Items |-> <<>>]
  /\ passes = 0

(* --------------------------- specifications ---------------------------- *)
Init == FetchStart /\ ChunkIdle /\ ParseIdle

Next == FetchNext

Spec == Init /\ [][Next]_vars

ChunkInit == ChunkStart /\ FetchIdle /\ ParseIdle

ChunkSpec == ChunkInit /\ [][ChunkNext]_vars

ParseInit == ParseStart /\ FetchIdle /\ ChunkIdle

ParseSpec == ParseInit /\ [][ParseNext]_vars

(* ------------------------------ claims --------------------------------- *)
Range(s) == {s[k] : k \in DOMAIN s}

RECURSIVE Flatten(_)
Flatten(ss) == IF ss = <<>> THEN <<>> ELSE Head(ss) \o Flatten(Tail(ss))

Fatal == {"500", "URLError"}

\* every outcome of func observed so far, over all items
OutcomesSoFar == UNION {Range(hist[it]) : it \in Items}

NoFatal == OutcomesSoFar \cap Fatal = {}

Terminated == pc \in {"returned", "raised"}

\* C6: the chunks yielded so far, concatenated in order, are a prefix of the input and
\* the whole input once the generator is exhausted; every chunk has between 1 and
\* chunk_size items, and every chunk but the last has exactly chunk_size items; the
\* empty list yields no chunk.
C6_ChunksPartition ==
  /\ Len(Flatten(yielded)) <= Len(input_list)
  /\ Flatten(yielded) = SubSeq(input_list, 1, Len(Flatten(yielded)))
  /\ gen_pc = "done" => Flatten(yielded) = input_list
  /\ \A k \in DOMAIN yielded : Len(yielded[k]) >= 1 /\ Len(yielded[k]) <= chunk_size
  /\ \A k \in DOMAIN yielded : k < Len(yielded) => Len(yielded[k]) = chunk_size
  /\ input_list = <<>> => yielded = <<>>

C6_Witness ==
  /\ gen_pc = "done"
  /\ Len(yielded) >= 2
  /\ Len(yielded[Len(yielded)]) < chunk_size

\* C4: when every invocation of func succeeded, no error reaches the caller and the set
\* of values returned is the image of func over the items, in whatever order the
\* futures were visited; for the empty list func is never invoked and [] is returned.
C4_AllSucceed ==
  /\ OutcomesSoFar \subseteq {"ok"} => pc # "raised" /\ err = <<>>
  /\ (pc = "returned" /\ OutcomesSoFar \subseteq {"ok"})
       => Range(results) = {Func(it) : it \in Range(usernames)}
  /\ usernames = <<>> => OutcomesSoFar = {} /\ futures = <<>> /\ results = <<>>

C4_Witness ==
  /\ pc = "returned"
  /\ OutcomesSoFar = {"ok"}
  /\ Len(usernames) > max_workers
  /\ Range(usernames) = Items
  /\ results # <<>> /\ results[1] # Func(usernames[1])

\* the chunk a future of this pass belongs to (futures are numbered in submit order)
ChunkOf(f) == (f - 1) \div max_workers

\* C5: never more than max_workers invocations are in flight, and while an invocation
\* of a chunk is in flight no invocation of a later chunk has been submitted.
C5_BoundedBarrier ==
  /\ Cardinality(Running) <= max_workers
  /\ \A f \in DOMAIN futures : \A g \in DOMAIN futures :
       ChunkOf(f) < ChunkOf(g) => futures[f] # "running"

C5_Witness ==
  /\ max_workers >= 2
  /\ Cardinality(Running) = max_workers
  /\ Len(futures) > max_workers

\* items for which some invocation answered 404
NotFoundItems == {it \in Items : "404" \in Range(hist[it])}

\* C1: when func answers 404 for some items and no invocation fails otherwise, no
\* error reaches the caller, and the list returned holds no value of an item that was
\* only ever not found and holds the value of every other item.
C1_NotFoundDropped ==
  (NoFatal /\ NotFoundItems # {}) =>
     /\ pc # "raised"
     /\ pc = "returned" =>
          /\ \A it \in NotFoundItems :
               "ok" \notin Range(hist[it]) => Func(it) \notin Range(results)
          /\ \A it \in Range(usernames) \ NotFoundItems : Func(it) \in Range(results)

\* every invocation of the item so far was answered 429
AllRateLimited(h) == h # <<>> /\ Range(h) = {"429"}

\* K answers 429, then a value on invocation K + 1
RetriedThenOk(h) == h # <<>> /\ h[Len(h)] = "ok" /\ \A k \in 1..(Len(h) - 1) : h[k] = "429"

\* C2: with no fatal outcome, the call does not end while an item has only been answered
\* 429 (its next invocation is still to come), and when it returns the list holds the
\* value of every item that was answered 429 K times and then succeeded.
C2_EventualRetry ==
  NoFatal =>
     /\ Terminated => \A it \in Items : ~AllRateLimited(hist[it])
     /\ pc = "returned" =>
          \A it \in Items : RetriedThenOk(hist[it]) => Func(it) \in Range(results)

\* futures of the running pass whose invocation failed fatally
FatalFutures == {f \in DOMAIN futures : futures[f] \in Fatal}

\* the exception the invocation behind future f raised
ErrorOf(f) == <<IF futures[f] = "500" THEN "HTTPError500" ELSE "URLError", data[f]>>

\* C3 as stated: whenever an invocation failed fatally the call never returns a list, and
\* the error the caller receives is the error of that invocation.
C3_FatalPropagates ==
  \A f \in FatalFutures :
     /\ pc # "returned"
     /\ pc = "raised" => err = ErrorOf(f)

\* C3 amended: whenever an invocation failed fatally the call never returns a list nor
\* starts another pass, and the error the caller receives is the error of one of the
\* fatally failed invocations, all of which belong to one chunk.
C3_FatalPropagatesOne ==
  FatalFutures # {} =>
     /\ pc \notin {"returned", "while", "call"}
     /\ pc = "raised" => \E g \in FatalFutures : err = ErrorOf(g)
     /\ \A f \in FatalFutures : \A g \in FatalFutures : ChunkOf(f) = ChunkOf(g)

C3_Witness ==
  /\ pc = "raised"
  /\ FatalFutures # {}
  /\ passes >= 2
  /\ results # <<>>
  /\ att_results # <<>>

\* ---- the archive read declaratively
IsTagLine(line) == ~IsBlank(line) /\ StartsWithBracket(line)

IsTextLine(line) == ~IsBlank(line) /\ ~StartsWithBracket(line)

Quotes(line) == Cardinality({k \in DOMAIN line : line[k] = Q})

NameOf(line) == TagName(Slice(line, 1, Len(line)))

ValueOf(line) == TagValue(Slice(line, 1, Len(line)))

IsBoundary(line) == IsTagLine(line) /\ Quotes(line) >= 2 /\ NameOf(line) = Event

Boundaries(a) == {k \in DOMAIN a : IsBoundary(a[k])}

NthBoundary(a, n) == CHOOSE k \in Boundaries(a) : Cardinality({j \in Boundaries(a) : j <= k}) = n

\* last line of the n-th record
SegmentEnd(a, n) == IF n < Cardinality(Boundaries(a)) THEN NthBoundary(a, n + 1) - 1 ELSE Len(a)

\* the lines of the n-th record that carry a value for key
KeyLines(a, n, key) ==
  {k \in NthBoundary(a, n)..SegmentEnd(a, n) :
     \/ IsTagLine(a[k]) /\ Quotes(a[k]) >= 2 /\ NameOf(a[k]) = key
     \/ key = Movetext /\ IsTextLine(a[k])}

LastOf(S) == CHOOSE k \in S : \A j \in S : j <= k

\* the n-th record of the archive restricted to the filter tg
RecordOf(a, tg, n) ==
  [key \in {x \in tg : KeyLines(a, n, x) # {}} |->
     LET line == a[LastOf(KeyLines(a, n, key))]
     IN IF IsTagLine(line) THEN ValueOf(line) ELSE RStrip(line)]

\* every tag line has its two quotes and nothing but blank lines precedes the first boundary
WellFormed(a) ==
  /\ \A k \in DOMAIN a : IsTagLine(a[k]) => Quotes(a[k]) >= 2
  /\ \A k \in DOMAIN a : (\A j \in Boundaries(a) : k < j) => IsBlank(a[k])

\* C7: once a well-formed archive of M records has been read to its end under a limit
\* that is absent or at least M, exactly the M records have been yielded in order,
\* record k < M at the boundary line of record k + 1.
C7_AllRecordsEmitted ==
  LET M == Cardinality(Boundaries(archive)) IN
  (ppc = "closed" /\ loop_exit = "exhausted" /\ WellFormed(archive)
     /\ (max_games = Infinity \/ max_games >= M))
    => /\ games = [k \in 1..M |-> RecordOf(archive, tags, k)]
       /\ \A k \in 1..(M - 1) : yield_at[k] = NthBoundary(archive, k + 1)

\* C8: under a finite limit N never more than N records are yielded; when the archive
\* has more than N records and the generator has finished, it yielded exactly the first
\* N records and left the loop by the break taken on the boundary line of record N + 1.
C8_CountLimit ==
  max_games # Infinity =>
     /\ Len(games) <= max_games
     /\ (ppc = "closed" /\ Cardinality(Boundaries(archive)) > max_games)
          => /\ games = [k \in 1..max_games |-> RecordOf(archive, tags, k)]
             /\ loop_exit = "break"
             /\ l = NthBoundary(archive, max_games + 1)

C8_Witness ==
  /\ ppc = "closed"
  /\ max_games = 1
  /\ Cardinality(Boundaries(archive)) = 3
  /\ Len(games) = 1

\* C9: every record yielded has its keys in the filter and is, key by key, the value of
\* the last line carrying that key between its own boundary line and the next one.
C9_RecordContents ==
  \A k \in DOMAIN games :
     /\ DOMAIN games[k] \subseteq tags
     /\ games[k] = RecordOf(archive, tags, k)

C9_Witness ==
  /\ Len(games) >= 2
  /\ games[1] # games[2]
  /\ Cardinality(DOMAIN games[1]) >= 2

\* C10: a tag line with fewer than two quotes makes the generator fail with a ParseError
\* that carries the line number, and no record is yielded for it.
C10_ParseError ==
  \A k \in 1..l :
     (IsTagLine(archive[k]) /\ Quotes(archive[k]) < 2)
       => /\ k = l
          /\ ppc = "error"
          /\ perr = <<"ParseError", l>>

\* ---- the fetch engine, claims on passes and chunks
Count(s, x) == Cardinality({k \in DOMAIN s : s[k] = x})

\* C11: within a pass every chunk is submitted whatever non-fatal outcomes the earlier
\* chunks had: an exception is on its way to the caller only after an invocation failed
\* fatally, and the with block is left normally only after every item of the pass was
\* submitted and collected.
C11_EveryChunkSubmitted ==
  /\ err # <<>> => FatalFutures # {}
  /\ (pc = "shutdown" /\ err = <<>>) => Len(futures) = Len(data) /\ Running = {}

\* C12: when a pass has ended, thread receives exactly the items (with multiplicity) whose
\* invocation in that pass was answered 429, every item of the pass having been invoked
\* and completed; an item is invoked again only to redo an invocation answered 429; and
\* unless an invocation failed fatally the call does not end after a pass in which an
\* invocation was answered 429 (those items are invoked again in a next pass).
C12_RetryInput ==
  /\ pc = "while" =>
       /\ Len(futures) = Len(data) /\ Running = {}
       /\ \A it \in Items :
            Count(failed_requests, it)
              = Cardinality({f \in DOMAIN futures : futures[f] = "429" /\ data[f] = it})
  /\ \A it \in Items : Len(hist[it]) <= Count(usernames, it) + Count(hist[it], "429")
  /\ (Terminated /\ NoFatal) => \A f \in DOMAIN futures : futures[f] # "429"

\* C13: the call returns only when the last pass left no rate-limited item, and as long
\* as some item has been answered 429 at each of its invocations and no invocation failed
\* fatally the call has not ended: it goes on with a further pass.
C13_NoRetryCeiling ==
  /\ pc = "returned" =>
       failed_requests = <<>> /\ \A f \in DOMAIN futures : futures[f] # "429"
  /\ (NoFatal /\ \E it \in Items : AllRateLimited(hist[it])) => ~Terminated

\* C14: when the call returns, the list holds, for every item, as many copies of its
\* value as invocations of it succeeded (no value lost, none duplicated, equal items of
\* the input not merged), and its length is the number of items of the input minus the
\* number of invocations answered 404.
C14_NoLossNoDuplicate ==
  pc = "returned" =>
     /\ \A it \in Items : Count(results, Func(it)) = Count(hist[it], "ok")
     /\ Range(results) \subseteq {Func(it) : it \in Items}
     /\ Len(results) = Len(usernames)
          - Cardinality({p \in UNION {{<<it, k>> : k \in DOMAIN hist[it]} : it \in Items} :
                           hist[p[1]][p[2]] = "404"})

C14_Witness ==
  /\ pc = "returned"
  /\ passes >= 2
  /\ \E it \in Items : Count(usernames, it) >= 2 /\ Count(results, Func(it)) >= 2
  /\ "404" \in OutcomesSoFar
  /\ Len(results) >= 3

\* the for loop has visited a future whose invocation failed fatally
FatalDetected ==
  \E f \in FatalFutures :
     \/ f \notin DOMAIN future_to_username
     \/ pc \notin {"submit", "wait"} /\ f \notin completed_futures

\* C15: once the loop has met a fatal outcome no invocation is started any more, in this
\* pass or in a later one, and the exception reaches the caller only when no submitted
\* invocation is still running.
C15_NoInvocationAfterFatal ==
  /\ [](pc = "raised" => Running = {})
  /\ [][FatalDetected => (futures' = futures /\ passes' = passes /\ hist' = hist)]_vars

C15_Witness ==
  /\ pc = "raised"
  /\ FatalFutures # {}
  /\ att_failed # <<>>
  /\ i < Len(data)
  /\ Len(futures) < Len(data)

\* ---- the parser, claims on single lines
\* a line whose value the filter retains, other than a boundary line
StoresField(line) ==
  \/ IsTagLine(line) /\ Quotes(line) >= 2 /\ NameOf(line) \in tags /\ NameOf(line) # Event
  \/ IsTextLine(line) /\ Movetext \in tags

\* C16: a retained tag line or free-text line read before the first boundary line is
\* skipped: the generator does not fail on it, and never fails for want of an open record.
C16_NoOpenRecord ==
  /\ perr # <<"UnboundLocalError", "current_game">>
  /\ \A k \in 1..l :
       (StoresField(archive[k]) /\ \A j \in Boundaries(archive) : j > k)
         => ~(ppc = "error" /\ l = k)

\* boundary lines among the lines read so far
BoundariesRead == Cardinality({k \in Boundaries(archive) : k <= l})

\* C17: whatever the filter, every boundary line read is counted and every boundary line
\* but the first yields the record open before it; when Event is not in the filter no
\* record yielded has the key Event (a record without retained field is the empty dict).
C17_BoundaryIndependent ==
  /\ Len(games) = IF BoundariesRead = 0 THEN 0 ELSE BoundariesRead - 1
  /\ games_analyzed = IF ppc = "yield" THEN BoundariesRead - 1 ELSE BoundariesRead
  /\ Event \notin tags => \A k \in DOMAIN games : Event \notin DOMAIN games[k]

C17_Witness ==
  /\ Event \notin tags
  /\ Len(games) >= 2
  /\ games[1] = EmptyDict
  /\ games[2] # EmptyDict

\* C18: a record is never changed after it has been emitted.  The dict object that
\* current_game refers to outside the suspension at the yield is none of the objects already
\* handed out, so every later store goes to a fresh dict; and in every step each record
\* emitted so far is still in its place with the contents it had.
C18_EmittedImmutable ==
  /\ [](ppc # "yield" => \A k \in DOMAIN yielded_ids : yielded_ids[k] # current_game_id)
  /\ [][/\ Len(games') >= Len(games)
        /\ \A k \in DOMAIN games : games'[k] = games[k]]_vars

\* a record with a Result was emitted, and a different Result was stored after its emission
C18_Witness ==
  /\ ppc = "scan" /\ Len(games) >= 1 /\ l > yield_at[Len(games)]
  /\ Result \in DOMAIN games[Len(games)] /\ Result \in DOMAIN current_game
  /\ current_game[Result] # games[Len(games)][Result]


\* a line the parser reads without effect
Ignored(line) ==
  \/ IsBlank(line)
  \/ IsTagLine(line) /\ Quotes(line) >= 2 /\ NameOf(line) # Event /\ NameOf(line) \notin tags
  \/ IsTextLine(line) /\ Movetext \notin tags

\* C19: reading a blank line, a well-formed tag line whose name is neither Event nor in the
\* filter, or a free-text line while Movetext is not in the filter leaves the open record,
\* the counter of boundaries and the records emitted so far unchanged, and raises nothing.
C19_IgnoredLines ==
  [][(ppc = "scan" /\ l' = l + 1 /\ Ignored(archive[l + 1]))
       => /\ current_game' = current_game
          /\ current_game_bound' = current_game_bound
          /\ games_analyzed' = games_analyzed
          /\ games' = games
          /\ ppc' = "scan" /\ perr' = perr]_vars

\* an open record with a field, then a blank line, an unfiltered tag and a free-text line
C19_Witness ==
  /\ ppc = "scan" /\ l = 4 /\ Movetext \notin tags
  /\ current_game_bound /\ current_game # EmptyDict
  /\ IsBlank(archive[2])
  /\ IsTagLine(archive[3]) /\ Quotes(archive[3]) >= 2 /\ NameOf(archive[3]) \notin tags
  /\ IsTextLine(archive[4])

====
